---- MODULE Spec2Model ----
(***************************************************************************)
(* A model of topic_notifier.py: the loading of the hz-range rules from    *)
(* YAML files, the parsing of the statistics text of a /rosout message,    *)
(* the validation of the parsed frequencies against the rules and the      *)
(* widgets the window keeps for the topics that are NG.                    *)
(*                                                                         *)
(* Text is a sequence of characters, each a one-character string.  The     *)
(* three literal phrases of block_pattern and the literal nan are single   *)
(* elements of a text (see STAT, CNT, FRQ, NAN below).                      *)
(*                                                                         *)
(* A Python float is a record [nan, n, s]: not-a-number, or the decimal    *)
(* n / 10^s with no trailing zero in its fraction.                         *)
(***************************************************************************)
EXTENDS Integers, Sequences, FiniteSets, TLC

VARIABLES
    pc,                  \* where the process is: "init", "running", "checked", "crashed"
    yaml_filepaths,      \* the parameter yaml_config_files: the files, by content
    exact_hz_configs,    \* TopicNotifier.exact_hz_configs: name -> config
    regex_hz_configs,    \* TopicNotifier.regex_hz_configs: list of (pattern, config)
    logged,              \* what get_logger() was given by the loader, in order
    msg_str,             \* the text of the message being parsed
    cleaned_str,         \* parse_ros_topic_statistics: cleaned_str
    parsed_topic_stats,  \* the parsed statistics of the last message
    validation_results,  \* the results of the last check_topic_frequencies
    topic_widgets,       \* TopicNotifierGUI.topic_widgets: topic -> widget
    last_status          \* history: topic -> status of its last updateTopicStatus
                         \* since the last clearAllTopics

vars == <<pc, yaml_filepaths, exact_hz_configs, regex_hz_configs, logged, msg_str,
          cleaned_str, parsed_topic_stats, validation_results, topic_widgets,
          last_status>>

\* ------------------------------------------------------------------ bounds
MaxEntries == 3

\* ------------------------------------------------------------ Python floats
NaN == [nan |-> TRUE, n |-> 0, s |-> 0]

RECURSIVE Normal(_, _)
Normal(n, s) ==
    IF s > 0 /\ n % 10 = 0 THEN Normal(n \div 10, s - 1)
    ELSE [nan |-> FALSE, n |-> n, s |-> s]

FloatOfInt(n) == [nan |-> FALSE, n |-> n, s |-> 0]

RECURSIVE Pow10(_)
Pow10(k) == IF k = 0 THEN 1 ELSE 10 * Pow10(k - 1)

\* a <= b of two floats: False as soon as one of them is nan
FloatLe(a, b) ==
    /\ ~a.nan
    /\ ~b.nan
    /\ a.n * Pow10(b.s) <= b.n * Pow10(a.s)

\* --------------------------------------------------------------- characters
Digits == {"0", "1", "2", "3", "4", "5", "6", "7", "8", "9"}

DigitValue(c) ==
    CASE c = "0" -> 0 [] c = "1" -> 1 [] c = "2" -> 2 [] c = "3" -> 3
      [] c = "4" -> 4 [] c = "5" -> 5 [] c = "6" -> 6 [] c = "7" -> 7
      [] c = "8" -> 8 [] c = "9" -> 9

\* the characters the loader takes for the sign of a regular expression
RegexChars == {"*", "+", "?", "^", "$", "[", "]", "(", ")", "{", "}", "|", "\\"}

SeqToSet(s) == {s[i] : i \in 1..Len(s)}

\* ------------------------------------------------------- YAML values, files
\* A YAML scalar: an integer, a quoted integer, a quoted word or null
YNum(n) == [t |-> "num", v |-> n]
YNumStr(n) == [t |-> "numstr", v |-> n]
YWord == [t |-> "word", v |-> 0]
YNull == [t |-> "null", v |-> 0]

\* hz_range of an entry: no such key, or a list of scalars
HzAbsent == [t |-> "absent", items |-> <<>>]
HzList(items) == [t |-> "list", items |-> items]

\* float(x): the value, or the exception float raises
PyFloat(x) ==
    CASE x.t = "num" -> [err |-> "none", val |-> FloatOfInt(x.v)]
      [] x.t = "numstr" -> [err |-> "none", val |-> FloatOfInt(x.v)]
      [] x.t = "word" -> [err |-> "ValueError", val |-> NaN]
      [] x.t = "null" -> [err |-> "TypeError", val |-> NaN]

\* -------------------------------------------------------- regular expressions
\* The patterns of the model are built of literal characters, the dot, \d and
\* the postfix * and +; a backslash stands only before d or at the end of a
\* name, and no quantifier follows another.  A compiled pattern is a sequence
\* of [kind, ch, q].
ReQuant == {"*", "+"}

RECURSIVE ReParse(_)
ReParse(p) ==
    IF p = <<>> THEN [err |-> FALSE, toks |-> <<>>]
    ELSE IF Head(p) \in ReQuant THEN [err |-> TRUE, toks |-> <<>>]  \* nothing to repeat
    ELSE
      LET esc == Head(p) = "\\"
          width == IF esc THEN 2 ELSE 1
      IN  IF esc /\ (Len(p) < 2 \/ p[2] # "d") THEN [err |-> TRUE, toks |-> <<>>]
          ELSE
            LET kind == IF esc THEN "digit" ELSE IF Head(p) = "." THEN "any" ELSE "lit"
                hasq == Len(p) > width /\ p[width + 1] \in ReQuant
                q == IF hasq THEN p[width + 1] ELSE "1"
                used == IF hasq THEN width + 1 ELSE width
                rest == ReParse(SubSeq(p, used + 1, Len(p)))
            IN  IF rest.err THEN rest
                ELSE [err |-> FALSE,
                      toks |-> <<[kind |-> kind, ch |-> Head(p), q |-> q]>> \o rest.toks]

\* re.compile(name): raises re.error or gives the pattern
ReCompile(name) == ReParse(name)

AtomMatches(t, c) ==
    CASE t.kind = "lit" -> c = t.ch
      [] t.kind = "digit" -> c \in Digits
      [] t.kind = "any" -> c # "\n"

RECURSIVE ReMatch(_, _)
ReMatch(toks, s) ==
    IF toks = <<>> THEN s = <<>>
    ELSE
      LET t == Head(toks)
          one == s # <<>> /\ AtomMatches(t, Head(s))
      IN  CASE t.q = "1" -> one /\ ReMatch(Tail(toks), Tail(s))
            [] t.q = "*" -> ReMatch(Tail(toks), s) \/ (one /\ ReMatch(toks, Tail(s)))
            [] t.q = "+" -> one /\ ReMatch(<<[t EXCEPT !.q = "*"]>> \o Tail(toks), Tail(s))

\* pattern.fullmatch(topic_name), pattern a name that compiled
FullMatch(pattern, topic_name) == ReMatch(ReCompile(pattern).toks, topic_name)

\* ------------------------------------------------------------ rule loading
Config(lo, hi) == [min |-> lo, max |-> hi]

EmptyDict == <<>>

DictSet(d, k, v) == [x \in (DOMAIN d) \cup {k} |-> IF x = k THEN v ELSE d[x]]

DictDel(d, k) == [x \in (DOMAIN d) \ {k} |-> d[x]]

\* what the loader holds while it runs: the two stores, the log, and the
\* exception that is propagating out of the loop over the entries
NoRules == [exact |-> EmptyDict, regex |-> <<>>, log |-> <<>>, raised |-> "none"]

Log(st, level, what, filepath, name) ==
    [st EXCEPT !.log = Append(@, [level |-> level, what |-> what,
                                  file |-> filepath, name |-> name])]

\* the body of "for topic_entry in data['topics']" for one entry
TopicEntry(st, filepath, topic_entry) ==
    LET name == topic_entry.name
        hz_range_list == topic_entry.hz_range
    IN  IF ~(/\ name # <<>>
             /\ hz_range_list.t = "list"
             /\ hz_range_list.items # <<>>
             /\ Len(hz_range_list.items) = 2)
        THEN st
        ELSE
          LET lo == PyFloat(hz_range_list.items[1])
              hi == PyFloat(hz_range_list.items[2])
              err == IF lo.err # "none" THEN lo.err ELSE hi.err
              config == Config(lo.val, hi.val)
          IN  IF err = "ValueError" THEN Log(st, "warning", "hz_range", filepath, name)
              ELSE IF err = "TypeError" THEN [st EXCEPT !.raised = "TypeError"]
              ELSE IF SeqToSet(name) \cap RegexChars # {}
              THEN IF ReCompile(name).err
                   THEN Log(st, "warning", "regex", filepath, name)
                   ELSE [st EXCEPT !.regex = Append(@, [pattern |-> name, config |-> config])]
              ELSE [st EXCEPT !.exact = DictSet(@, name, config)]

\* the loop over data['topics']: an exception that is neither ValueError
\* nor re.error leaves the loop
RECURSIVE TopicEntries(_, _, _)
TopicEntries(st, filepath, topics) ==
    IF topics = <<>> THEN st
    ELSE
      LET next == TopicEntry(st, filepath, Head(topics))
      IN  IF next.raised # "none" THEN next
          ELSE TopicEntries(next, filepath, Tail(topics))

\* a mutant of LoadFile: a file that cannot be read ends the load with
\* nothing, as a return in the handler of the exception would
LoadFileGivesUp(st, filepath, file) ==
    CASE file.t = "missing" -> Log([st EXCEPT !.exact = EmptyDict, !.regex = <<>>],
                                   "error", "not found", filepath, <<>>)
      [] file.t = "badyaml" -> Log([st EXCEPT !.exact = EmptyDict, !.regex = <<>>],
                                   "error", "yaml", filepath, <<>>)
      [] file.t = "notopics" -> st
      [] file.t = "doc" ->
           LET after == TopicEntries(st, filepath, file.topics)
           IN  IF after.raised # "none"
               THEN Log([after EXCEPT !.raised = "none"], "error", "unexpected", filepath, <<>>)
               ELSE after

\* the body of "for filepath in yaml_filepaths_list" for one file; a file is
\* its content: missing, not YAML, a document without topics, or a document
LoadFile(st, filepath, file) ==
    CASE file.t = "missing" -> Log(st, "error", "not found", filepath, <<>>)
      [] file.t = "badyaml" -> Log(st, "error", "yaml", filepath, <<>>)
      [] file.t = "notopics" -> st
      [] file.t = "doc" ->
           LET after == TopicEntries(st, filepath, file.topics)
           IN  IF after.raised # "none"
               THEN Log([after EXCEPT !.raised = "none"], "error", "unexpected", filepath, <<>>)
               ELSE after

RECURSIVE LoadFiles(_, _, _)
LoadFiles(st, files, filepath) ==
    IF filepath > Len(files) THEN st
    ELSE LoadFiles(LoadFile(st, filepath, files[filepath]), files, filepath + 1)

\* load_hz_range_config_from_files(yaml_filepaths_list)
load_hz_range_config_from_files(yaml_filepaths_list) ==
    LoadFiles(NoRules, yaml_filepaths_list, 1)

\* ---------------------------------------------------------------- validation
\* f"[{min}, {max}]"
FormatRange(config) == <<"[", config.min, ", ", config.max, "]">>

\* a mutant of FirstRegex: the loop without its break, the last match wins
RECURSIVE LastRegex(_, _, _)
LastRegex(regex_configs_list, topic_name, i) ==
    IF i > Len(regex_configs_list) THEN 0
    ELSE LET later == LastRegex(regex_configs_list, topic_name, i + 1)
         IN  IF later > 0 THEN later
             ELSE IF FullMatch(regex_configs_list[i].pattern, topic_name) THEN i
             ELSE 0

\* the loop over regex_configs_list: the first (pattern, config) whose pattern
\* matches the whole topic name, as its index, or 0
RECURSIVE FirstRegex(_, _, _)
FirstRegex(regex_configs_list, topic_name, i) ==
    IF i > Len(regex_configs_list) THEN 0
    ELSE IF FullMatch(regex_configs_list[i].pattern, topic_name) THEN i
    ELSE FirstRegex(regex_configs_list, topic_name, i + 1)

NotFound == [found |-> FALSE, config |-> Config(NaN, NaN), info |-> <<"N/A">>]

\* a mutant of FindConfig: the patterns are tried before the exact names
FindConfigRegexFirst(topic_name, exact_match_configs, regex_configs_list) ==
    LET i == FirstRegex(regex_configs_list, topic_name, 1)
    IN  IF i > 0
        THEN [found |-> TRUE, config |-> regex_configs_list[i].config,
              info |-> <<"Regex match: ", regex_configs_list[i].pattern>>]
        ELSE IF topic_name \in DOMAIN exact_match_configs
        THEN [found |-> TRUE, config |-> exact_match_configs[topic_name],
              info |-> <<"Exact match: ", topic_name>>]
        ELSE NotFound

\* a mutant of FindConfig: after a loop that found nothing, the config of the
\* loop variable is taken for the one found
FindConfigLoopVariable(topic_name, exact_match_configs, regex_configs_list) ==
    LET i == FirstRegex(regex_configs_list, topic_name, 1)
        n == Len(regex_configs_list)
    IN  IF topic_name \in DOMAIN exact_match_configs
        THEN [found |-> TRUE, config |-> exact_match_configs[topic_name],
              info |-> <<"Exact match: ", topic_name>>]
        ELSE IF i > 0
        THEN [found |-> TRUE, config |-> regex_configs_list[i].config,
              info |-> <<"Regex match: ", regex_configs_list[i].pattern>>]
        ELSE IF n > 0
        THEN [found |-> TRUE, config |-> regex_configs_list[n].config, info |-> <<"N/A">>]
        ELSE NotFound

\* found_config and config_source_info of a topic name
FindConfig(topic_name, exact_match_configs, regex_configs_list) ==
    LET i == FirstRegex(regex_configs_list, topic_name, 1)
    IN  IF topic_name \in DOMAIN exact_match_configs
        THEN [found |-> TRUE, config |-> exact_match_configs[topic_name],
              info |-> <<"Exact match: ", topic_name>>]
        ELSE IF i > 0
        THEN [found |-> TRUE, config |-> regex_configs_list[i].config,
              info |-> <<"Regex match: ", regex_configs_list[i].pattern>>]
        ELSE NotFound

\* a mutant of StatusOf: the upper bound is exclusive
StatusOfExclusive(found_config, frequency) ==
    IF FloatLe(found_config.min, frequency)
       /\ FloatLe(frequency, found_config.max) /\ frequency # found_config.max
    THEN "OK" ELSE "NG"

\* the status of a frequency under the config found
StatusOf(found_config, frequency) ==
    IF FloatLe(found_config.min, frequency) /\ FloatLe(frequency, found_config.max)
    THEN "OK" ELSE "NG"

\* the body of "for stat in parsed_stats" for one stat
CheckStat(stat, exact_match_configs, regex_configs_list) ==
    LET topic_name == stat.topic
        frequency == stat.message_frequency
        c == FindConfig(topic_name, exact_match_configs, regex_configs_list)
    IN  [topic |-> topic_name,
         frequency |-> frequency,
         expected_range |-> IF c.found THEN FormatRange(c.config) ELSE <<"N/A">>,
         status |-> IF c.found THEN StatusOf(c.config, frequency) ELSE "Config Not Found",
         config_source |-> IF c.found THEN c.info ELSE <<"N/A">>]

\* check_topic_frequencies(parsed_stats, exact_match_configs, regex_configs_list)
check_topic_frequencies(parsed_stats, exact_match_configs, regex_configs_list) ==
    [k \in 1..Len(parsed_stats) |->
        CheckStat(parsed_stats[k], exact_match_configs, regex_configs_list)]

\* ------------------------------------------------------------------ parsing
\* the character \x1B
ESC == "ESC"

\* the classes of ansi_escape_pattern: [0-?], [ -/] and [@-~] (but for the
\* backquote of [@-~], which no text of the model holds)
ParamChars ==
    {"0", "1", "2", "3", "4", "5", "6", "7", "8", "9", ":", ";", "<", "=",
     ">", "?"}

InterChars ==
    {" ", "!", "\"", "#", "$", "%", "&", "'", "(", ")", "*", "+", ",", "-",
     ".", "/"}

FinalChars ==
    {"@", "A", "B", "C", "D", "E", "F", "G", "H", "I", "J", "K", "L", "M",
     "N", "O", "P", "Q", "R", "S", "T", "U", "V", "W", "X", "Y", "Z", "[",
     "\\", "]", "^", "_", "a", "b", "c", "d", "e", "f", "g", "h", "i",
     "j", "k", "l", "m", "n", "o", "p", "q", "r", "s", "t", "u", "v", "w",
     "x", "y", "z", "{", "|", "}", "~"}

\* what the dot of a pattern matches: the characters but the line break
Dot == ParamChars \cup InterChars \cup FinalChars \cup {ESC, "\t", "\r"}

\* the literals of block_pattern
STAT ==
    <<"S", "t", "a", "t", "i", "s", "t", "i", "c", "s", " ", "f", "o", "r",
      " ", "t", "o", "p", "i", "c", " ">>

CNT ==
    <<"M", "e", "s", "s", "a", "g", "e", " ", "c", "o", "u", "n", "t", " ",
      "=", " ">>

FRQ ==
    <<",", " ", "M", "e", "s", "s", "a", "g", "e", " ", "f", "r", "e", "q",
      "u", "e", "n", "c", "y", " ", "=", " ">>

NAN == <<"n", "a", "n">>

Min(S) == CHOOSE x \in S : \A y \in S : x <= y

\* the number of characters of text from position i on that are in class
Run(text, i, class) ==
    (CHOOSE k \in i..(Len(text) + 1) :
        /\ k > Len(text) \/ text[k] \notin class
        /\ \A j \in i..(k - 1) : text[j] \in class) - i

\* the length of the match of ansi_escape_pattern at position i, or 0.  The
\* three classes are disjoint, so the greedy match is the only one.
EscapeAt(text, i) ==
    IF i + 1 <= Len(text) /\ text[i] = ESC /\ text[i + 1] = "["
    THEN LET p == Run(text, i + 2, ParamChars)
             q == Run(text, i + 2 + p, InterChars)
             f == i + 2 + p + q
         IN  IF f <= Len(text) /\ text[f] \in FinalChars THEN f - i + 1 ELSE 0
    ELSE 0

\* a mutant of SubFrom: the last character of a sequence is kept
RECURSIVE SubFromKeepsFinal(_, _)
SubFromKeepsFinal(text, i) ==
    LET at == {k \in i..Len(text) : EscapeAt(text, k) > 0}
    IN  IF at = {} THEN SubSeq(text, i, Len(text))
        ELSE SubSeq(text, i, Min(at) - 1)
                 \o <<text[Min(at) + EscapeAt(text, Min(at)) - 1]>>
                 \o SubFromKeepsFinal(text, Min(at) + EscapeAt(text, Min(at)))

\* ansi_escape_pattern.sub('', text) from position i on: the text up to the
\* leftmost match is kept, the match is dropped, and so on after it
RECURSIVE SubFrom(_, _)
SubFrom(text, i) ==
    LET at == {k \in i..Len(text) : EscapeAt(text, k) > 0}
    IN  IF at = {} THEN SubSeq(text, i, Len(text))
        ELSE SubSeq(text, i, Min(at) - 1)
                 \o SubFrom(text, Min(at) + EscapeAt(text, Min(at)))

\* ansi_escape_pattern.sub('', msg_str)
StripEscapes(text) == SubFrom(text, 1)

HasPrefixAt(text, i, lit) ==
    /\ i + Len(lit) - 1 <= Len(text)
    /\ text[i] = lit[1]
    /\ SubSeq(text, i, i + Len(lit) - 1) = lit

\* int(digits)
RECURSIVE PyInt(_)
PyInt(digits) ==
    IF digits = <<>> THEN 0
    ELSE 10 * PyInt(SubSeq(digits, 1, Len(digits) - 1)) + DigitValue(digits[Len(digits)])

\* float(freq_str) of a string of digits and dots: one dot at most and a
\* digit at least, or ValueError
PyFloatOfStr(freq_str) ==
    LET dots == {k \in 1..Len(freq_str) : freq_str[k] = "."}
        digits == SelectSeq(freq_str, LAMBDA c : c # ".")
    IN  IF Cardinality(dots) > 1 \/ digits = <<>>
        THEN [err |-> "ValueError", val |-> NaN]
        ELSE LET s == IF dots = {} THEN 0
                      ELSE Len(freq_str) - (CHOOSE k \in dots : TRUE)
             IN  [err |-> "none", val |-> Normal(PyInt(digits), s)]

Whitespace == {" ", "\t", "\n", "\r"}

\* str.strip()
RECURSIVE PyStrip(_)
PyStrip(str) ==
    IF str = <<>> THEN str
    ELSE IF Head(str) \in Whitespace THEN PyStrip(Tail(str))
    ELSE IF str[Len(str)] \in Whitespace THEN PyStrip(SubSeq(str, 1, Len(str) - 1))
    ELSE str

\* the match of block_pattern that starts at position i: [ok, topic, count,
\* freq, end], end the position after the match.  (.+?) cannot cross a line
\* break, so it is the rest of the line; (\d+) and ([\d.]+) are whole runs.
BlockAt(text, i) ==
    LET none == [ok |-> FALSE, topic |-> <<>>, count |-> <<>>, freq |-> <<>>, end |-> i]
        n0 == i + Len(STAT)
        nameLen == Run(text, n0, Dot)
        c0 == n0 + nameLen + 1
        countLen == Run(text, c0 + Len(CNT), Digits)
        f0 == c0 + Len(CNT) + countLen + Len(FRQ)
        freqLen == Run(text, f0, Digits \cup {"."})
        isNan == freqLen = 0 /\ HasPrefixAt(text, f0, NAN)
    IN  IF /\ HasPrefixAt(text, i, STAT)
           /\ nameLen > 0
           /\ HasPrefixAt(text, n0 + nameLen, <<"\n">>)
           /\ HasPrefixAt(text, c0, CNT)
           /\ countLen > 0
           /\ HasPrefixAt(text, c0 + Len(CNT) + countLen, FRQ)
           /\ (freqLen > 0 \/ isNan)
        THEN [ok |-> TRUE,
              topic |-> SubSeq(text, n0, n0 + nameLen - 1),
              count |-> SubSeq(text, c0 + Len(CNT), c0 + Len(CNT) + countLen - 1),
              freq |-> IF isNan THEN NAN ELSE SubSeq(text, f0, f0 + freqLen - 1),
              end |-> IF isNan THEN f0 + Len(NAN) ELSE f0 + freqLen]
        ELSE none

\* the loop "for match in block_pattern.finditer(cleaned_str)" from position
\* i on: the results, or the ValueError of float(freq_str)
RECURSIVE FindBlocks(_, _)
FindBlocks(text, i) ==
    LET at == {k \in i..Len(text) : BlockAt(text, k).ok}
    IN  IF at = {} THEN [raised |-> FALSE, results |-> <<>>]
        ELSE
          LET m == BlockAt(text, Min(at))
              message_frequency ==
                  IF m.freq = NAN THEN [err |-> "none", val |-> NaN]
                  ELSE PyFloatOfStr(m.freq)
              rest == FindBlocks(text, m.end)
          IN  IF message_frequency.err # "none" \/ rest.raised
              THEN [raised |-> TRUE, results |-> <<>>]
              ELSE [raised |-> FALSE,
                    results |-> <<[topic |-> PyStrip(m.topic),
                                   message_count |-> PyInt(m.count),
                                   message_frequency |-> message_frequency.val]>>
                                \o rest.results]

\* parse_ros_topic_statistics(msg_str): [raised, cleaned_str, results]
parse_ros_topic_statistics(text) ==
    LET cleaned == StripEscapes(text)
        found == FindBlocks(cleaned, 1)
    IN  [raised |-> found.raised, cleaned_str |-> cleaned, results |-> found.results]

\* ------------------------------------------------------------------- window
\* TopicStatusWidget(topic_name, frequency, expected_range, status)
TopicStatusWidget(topic_name, frequency, expected_range, status) ==
    [topic_name |-> topic_name, frequency |-> frequency,
     expected_range |-> expected_range, status |-> status]

\* a mutant of updateTopicStatus: a widget is updated whatever the status
updateTopicStatusKeeps(widgets, topic_name, frequency, expected_range, status) ==
    IF topic_name \in DOMAIN widgets
    THEN [widgets EXCEPT ![topic_name].frequency = frequency,
                         ![topic_name].status = status]
    ELSE IF status = "NG"
    THEN DictSet(widgets, topic_name,
                 TopicStatusWidget(topic_name, frequency, expected_range, status))
    ELSE widgets

\* TopicNotifierGUI.updateTopicStatus: the topic_widgets it leaves
updateTopicStatus(widgets, topic_name, frequency, expected_range, status) ==
    IF status = "NG"
    THEN IF topic_name \in DOMAIN widgets
         THEN [widgets EXCEPT ![topic_name].frequency = frequency,
                              ![topic_name].status = status]
         ELSE DictSet(widgets, topic_name,
                      TopicStatusWidget(topic_name, frequency, expected_range, status))
    ELSE IF topic_name \in DOMAIN widgets
         THEN DictDel(widgets, topic_name)
         ELSE widgets

\* "for result in validation_results: self.gui.updateTopicStatus(...)"
RECURSIVE UpdateAll(_, _)
UpdateAll(widgets, results) ==
    IF results = <<>> THEN widgets
    ELSE UpdateAll(updateTopicStatus(widgets, Head(results).topic,
                                     Head(results).frequency,
                                     Head(results).expected_range,
                                     Head(results).status),
                   Tail(results))

\* the history of the calls of updateTopicStatus: the last status of a topic
RECURSIVE NoteAll(_, _)
NoteAll(last, results) ==
    IF results = <<>> THEN last
    ELSE NoteAll(DictSet(last, Head(results).topic, Head(results).status), Tail(results))

\* ------------------------------------------------------------------- inputs
MaxBlocks == 2
MaxPieces == 4

NA == <<"/", "a">>
NA0 == <<"/", "a", "0">>
NB == <<"/", "b">>
NOther == <<"b">>
PAD == <<"/", "a", "\\", "d">>
PALL == <<"/", ".", "*">>
PAP == <<"/", "a", "+">>
PBAD == <<"*", "a">>

Entry(name, hz_range) == [name |-> name, hz_range |-> hz_range]

Entries ==
    { Entry(NA, HzList(<<YNum(1), YNum(5)>>)),
      Entry(NA, HzList(<<YNum(5), YNum(1)>>)),
      Entry(NA, HzList(<<YWord, YNum(5)>>)),
      Entry(NA0, HzList(<<YNull, YNum(5)>>)),
      Entry(PAD, HzList(<<YNumStr(1), YNum(5)>>)),
      Entry(PALL, HzList(<<YNum(2), YNum(3)>>)),
      Entry(PAP, HzAbsent),
      Entry(PAP, HzList(<<YNum(1)>>)),
      Entry(PBAD, HzList(<<YNum(1), YNum(5)>>)) }

SeqsUpTo(S, n) == UNION {[1..k -> S] : k \in 0..n}

MissingFile == [t |-> "missing", topics |-> <<>>]
BadYamlFile == [t |-> "badyaml", topics |-> <<>>]
NoTopicsFile == [t |-> "notopics", topics |-> <<>>]
DocFile(topics) == [t |-> "doc", topics |-> topics]

\* the files of k entries; a file that is no document has none
Files(k) ==
    {DocFile(topics) : topics \in [1..k -> Entries]}
        \cup (IF k = 0 THEN {MissingFile, BadYamlFile, NoTopicsFile} ELSE {})

\* the files of the runs that go on to receive messages
ProgramFileLists ==
    {<<DocFile(<<e>>), f>> :
        e \in { Entry(NA, HzList(<<YNum(1), YNum(5)>>)),
                Entry(NA, HzList(<<YWord, YNum(5)>>)),
                Entry(PAP, HzList(<<YNum(6), YNum(6)>>)),
                Entry(PALL, HzList(<<YNum(5), YNum(1)>>)) },
        f \in {MissingFile, DocFile(<<Entry(PALL, HzList(<<YNum(2), YNum(3)>>))>>)}}

Half == Normal(5, 1)

Stats ==
    [topic : {NA, NA0, NOther},
     message_count : {5},
     message_frequency : {Half, FloatOfInt(3), NaN}]

RECURSIVE Concat(_)
Concat(texts) == IF texts = <<>> THEN <<>> ELSE Head(texts) \o Concat(Tail(texts))

Block(topic, count, freq) == STAT \o topic \o <<"\n">> \o CNT \o count \o FRQ \o freq \o <<"\n">>

Blocks ==
    {Block(t, <<"5">>, f) : t \in {NA, NB}, f \in {<<"3">>, <<"6">>}}
        \cup {Block(NA, <<"5">>, NAN), Block(NA, <<"5">>, <<"3", ".", ".">>)}

\* the messages of the target node
ProgramMessages == {Concat(bs) : bs \in SeqsUpTo(Blocks, MaxBlocks)}

CSI == <<ESC, "[", "3", "m">>

Pieces ==
    { STAT \o NA,
      <<"\n">> \o CNT \o <<"5">> \o FRQ,
      <<"3">>, <<".">>, NAN, <<ESC>>, <<"[">>, <<"m">>, CSI }

\* the texts given to parse_ros_topic_statistics
ParseMessages == {Concat(ps) : ps \in SeqsUpTo(Pieces, MaxPieces)}

\* ------------------------------------------------------------------ actions
\* TopicNotifier.__init__: load the rules of the files
Construct ==
    /\ pc = "init"
    /\ LET st == load_hz_range_config_from_files(yaml_filepaths)
       IN  /\ exact_hz_configs' = st.exact
           /\ regex_hz_configs' = st.regex
           /\ logged' = st.log
    /\ pc' = "running"
    /\ UNCHANGED <<yaml_filepaths, msg_str, cleaned_str, parsed_topic_stats,
                   validation_results, topic_widgets, last_status>>

\* check_topic_frequencies on given statistics, with the rules loaded
CheckTopicFrequencies ==
    /\ pc = "running"
    /\ \E stat \in Stats :
         /\ parsed_topic_stats' = <<stat>>
         /\ validation_results' =
                check_topic_frequencies(<<stat>>, exact_hz_configs, regex_hz_configs)
    /\ pc' = "checked"
    /\ UNCHANGED <<yaml_filepaths, exact_hz_configs, regex_hz_configs, logged, msg_str,
                   cleaned_str, topic_widgets, last_status>>

\* rosout_callback(msg): a message of another node is left alone; the
\* ValueError of the parser is not caught and ends the process; the text,
\* the statistics and the results are locals of the callback
RosoutCallback ==
    /\ pc = "running"
    /\ \E from_target \in BOOLEAN, text \in ProgramMessages :
         LET parsed == parse_ros_topic_statistics(text)
             results == check_topic_frequencies(parsed.results, exact_hz_configs,
                                                regex_hz_configs)
         IN  IF ~from_target THEN UNCHANGED <<pc, topic_widgets, last_status>>
             ELSE IF parsed.raised
             THEN pc' = "crashed" /\ UNCHANGED <<topic_widgets, last_status>>
             ELSE IF parsed.results = <<>>
             THEN UNCHANGED <<pc, topic_widgets, last_status>>
             ELSE /\ topic_widgets' = UpdateAll(topic_widgets, results)
                  /\ last_status' = NoteAll(last_status, results)
                  /\ UNCHANGED pc
    /\ UNCHANGED <<yaml_filepaths, exact_hz_configs, regex_hz_configs, logged, msg_str,
                   cleaned_str, parsed_topic_stats, validation_results>>

\* TopicNotifierGUI.clearAllTopics, the Clear All button
clearAllTopics ==
    /\ pc = "running"
    /\ topic_widgets' = EmptyDict
    /\ last_status' = EmptyDict
    /\ UNCHANGED <<pc, yaml_filepaths, exact_hz_configs, regex_hz_configs, logged,
                   msg_str, cleaned_str, parsed_topic_stats, validation_results>>

\* parse_ros_topic_statistics on a given text
ParseRosTopicStatistics ==
    /\ pc = "init"
    /\ LET parsed == parse_ros_topic_statistics(msg_str)
       IN  /\ cleaned_str' = parsed.cleaned_str
           /\ parsed_topic_stats' = parsed.results
           /\ pc' = IF parsed.raised THEN "crashed" ELSE "parsed"
    /\ UNCHANGED <<yaml_filepaths, exact_hz_configs, regex_hz_configs, logged, msg_str,
                   validation_results, topic_widgets, last_status>>

Blank ==
    /\ pc = "init"
    /\ exact_hz_configs = EmptyDict
    /\ regex_hz_configs = <<>>
    /\ logged = <<>>
    /\ cleaned_str = <<>>
    /\ parsed_topic_stats = <<>>
    /\ validation_results = <<>>
    /\ topic_widgets = EmptyDict
    /\ last_status = EmptyDict

\* the node and its window: the rules are loaded, then messages arrive
Init ==
    /\ Blank
    /\ yaml_filepaths \in ProgramFileLists
    /\ msg_str = <<>>

Next == Construct \/ RosoutCallback \/ clearAllTopics

Spec == Init /\ [][Next]_vars

\* the loader and the validation, over the pairs of files (the default of
\* yaml_config_files names two) that have MaxEntries entries or less together
InitLoad ==
    /\ Blank
    /\ \E k1 \in 0..MaxEntries :
         \E k2 \in 0..(MaxEntries - k1) :
            \E f1 \in Files(k1), f2 \in Files(k2) : yaml_filepaths = <<f1, f2>>
    /\ msg_str = <<>>

NextLoad == Construct \/ CheckTopicFrequencies

SpecLoad == InitLoad /\ [][NextLoad]_vars

\* the parser, over all the texts of the bounds
InitParse ==
    /\ Blank
    /\ yaml_filepaths = <<>>
    /\ msg_str \in ParseMessages

NextParse == ParseRosTopicStatistics

SpecParse == InitParse /\ [][NextParse]_vars

\* ------------------------------------------------------- claims on the rules
\* the indexes of the patterns loaded that match the whole of a topic name
Matching(topic_name) ==
    {i \in 1..Len(regex_hz_configs) : FullMatch(regex_hz_configs[i].pattern, topic_name)}

\* the entries of the files that are documents, in the order of the files and
\* of the entries of a file
Declared ==
    Concat([i \in 1..Len(yaml_filepaths) |->
              IF yaml_filepaths[i].t = "doc" THEN yaml_filepaths[i].topics ELSE <<>>])

HasRange(e) == e.hz_range.t = "list" /\ Len(e.hz_range.items) = 2

\* the range an entry declares, its bounds being numbers
RangeOf(e) == Config(PyFloat(e.hz_range.items[1]).val, PyFloat(e.hz_range.items[2]).val)

\* an entry the loader has to turn into a rule
ValidEntry(e) ==
    /\ e.name # <<>>
    /\ HasRange(e)
    /\ e.hz_range.items[1].t \in {"num", "numstr"}
    /\ e.hz_range.items[2].t \in {"num", "numstr"}
    /\ (SeqToSet(e.name) \cap RegexChars # {} => ~ReCompile(e.name).err)

IsPattern(e) == SeqToSet(e.name) \cap RegexChars # {}

\* rules is a subsequence of the rules that entries declare
RECURSIVE InOrderOf(_, _)
InOrderOf(rules, entries) ==
    IF rules = <<>> THEN TRUE
    ELSE IF entries = <<>> THEN FALSE
    ELSE IF /\ ValidEntry(Head(entries))
            /\ Head(rules) = [pattern |-> Head(entries).name, config |-> RangeOf(Head(entries))]
    THEN InOrderOf(Tail(rules), Tail(entries))
    ELSE InOrderOf(rules, Tail(entries))

\* C1: a topic name that is a key of the exact map gets the range of the exact
\* rule and an exact-match config_source, whatever patterns match it too and
\* whatever the order the rules were registered in.
C1_ExactTakesPrecedence ==
    \A r \in SeqToSet(validation_results) :
        (pc = "checked" /\ r.topic \in DOMAIN exact_hz_configs)
            => /\ r.expected_range = FormatRange(exact_hz_configs[r.topic])
               /\ r.config_source = <<"Exact match: ", r.topic>>

\* C1 happens: the first file registers a pattern that matches the topic, with
\* another range, and the second file registers the exact rule
C1_Witness ==
    \E r \in SeqToSet(validation_results) :
        /\ pc = "checked"
        /\ r.topic \in DOMAIN exact_hz_configs
        /\ yaml_filepaths[1].t = "doc"
        /\ yaml_filepaths[2].t = "doc"
        /\ \E i \in Matching(r.topic) :
             /\ regex_hz_configs[i].config # exact_hz_configs[r.topic]
             /\ \E e \in SeqToSet(yaml_filepaths[1].topics) :
                    e.name = regex_hz_configs[i].pattern
        /\ \E e \in SeqToSet(yaml_filepaths[2].topics) : e.name = r.topic /\ ValidEntry(e)
        /\ \A e \in SeqToSet(yaml_filepaths[1].topics) : e.name # r.topic

\* C2: a topic name that is no key of the exact map and that two or more
\* patterns match in full gets the range of the pattern registered first, and
\* the patterns are registered in the order of the files and, in a file, of
\* its entries.
C2_EarliestPatternWins ==
    /\ pc # "init" => InOrderOf(regex_hz_configs, Declared)
    /\ \A r \in SeqToSet(validation_results) :
        (/\ pc = "checked"
         /\ r.topic \notin DOMAIN exact_hz_configs
         /\ Cardinality(Matching(r.topic)) >= 2)
            => LET first == regex_hz_configs[Min(Matching(r.topic))]
               IN  /\ r.expected_range = FormatRange(first.config)
                   /\ r.config_source = <<"Regex match: ", first.pattern>>

\* C2 happens: two patterns of different ranges match the topic, the first
\* from the first file and the second from the second file
C2_Witness ==
    \E r \in SeqToSet(validation_results) :
        /\ pc = "checked"
        /\ r.topic \notin DOMAIN exact_hz_configs
        /\ Len(regex_hz_configs) = 2
        /\ Matching(r.topic) = {1, 2}
        /\ regex_hz_configs[1].config # regex_hz_configs[2].config
        /\ yaml_filepaths[1].t = "doc" /\ Len(yaml_filepaths[1].topics) = 1
        /\ yaml_filepaths[2].t = "doc" /\ Len(yaml_filepaths[2].topics) = 1

\* the config of the rule found for a topic name
RuleFound(topic_name) ==
    IF topic_name \in DOMAIN exact_hz_configs THEN exact_hz_configs[topic_name]
    ELSE regex_hz_configs[Min(Matching(topic_name))].config

HasRule(topic_name) == topic_name \in DOMAIN exact_hz_configs \/ Matching(topic_name) # {}

\* C3: with a rule found, the status is OK if and only if min <= frequency <=
\* max and NG otherwise: NG for a frequency that is not a number, and NG for
\* every frequency when min is greater than max.
C3_StatusIsRangeTest ==
    \A r \in SeqToSet(validation_results) :
        (pc = "checked" /\ HasRule(r.topic))
            => LET c == RuleFound(r.topic)
                   f == r.frequency
               IN  /\ r.status \in {"OK", "NG"}
                   /\ (r.status = "OK") <=> (FloatLe(c.min, f) /\ FloatLe(f, c.max))
                   /\ f.nan => r.status = "NG"
                   /\ (~FloatLe(c.min, c.max)) => r.status = "NG"

\* C3 happens: a frequency equal to the upper bound of its rule is OK
C3_Witness ==
    \E r \in SeqToSet(validation_results) :
        /\ pc = "checked"
        /\ HasRule(r.topic)
        /\ r.frequency = RuleFound(r.topic).max
        /\ r.status = "OK"

\* C4: a topic name that is no key of the exact map and that no pattern
\* matches in full gets Config Not Found, the range N/A and the source N/A,
\* whatever its frequency.
C4_NoRuleIsConfigNotFound ==
    \A r \in SeqToSet(validation_results) :
        (pc = "checked" /\ ~HasRule(r.topic))
            => /\ r.status = "Config Not Found"
               /\ r.expected_range = <<"N/A">>
               /\ r.config_source = <<"N/A">>

\* C4 happens: rules of both kinds are loaded, none is for the topic, and the
\* frequency is not a number
C4_Witness ==
    \E r \in SeqToSet(validation_results) :
        /\ pc = "checked"
        /\ ~HasRule(r.topic)
        /\ exact_hz_configs # EmptyDict
        /\ regex_hz_configs # <<>>
        /\ r.frequency.nan
        /\ r.status = "Config Not Found"

\* C5: an entry whose hz_range is absent, is not of length 2 or has a bound
\* that is no number, and a pattern that does not compile, is dropped with a
\* warning and gives no rule, and the other valid entries of its file, before
\* and after it, are all loaded.
C5_BadEntryIsSkippedAlone ==
    pc # "init" =>
        /\ DOMAIN exact_hz_configs =
               {e.name : e \in {d \in SeqToSet(Declared) : ValidEntry(d) /\ ~IsPattern(d)}}
        /\ regex_hz_configs =
               [k \in 1..Len(SelectSeq(Declared, LAMBDA d : ValidEntry(d) /\ IsPattern(d))) |->
                   LET e == SelectSeq(Declared, LAMBDA d : ValidEntry(d) /\ IsPattern(d))[k]
                   IN  [pattern |-> e.name, config |-> RangeOf(e)]]
        /\ \A i \in 1..Len(yaml_filepaths) :
               \A e \in SeqToSet(yaml_filepaths[i].topics) :
                   (e.name # <<>> /\ ~ValidEntry(e))
                       => \E l \in SeqToSet(logged) :
                              l.level = "warning" /\ l.file = i /\ l.name = e.name

Readable(file) == file.t \in {"doc", "notopics"}

\* C6: a file that cannot be opened or is no YAML gives no rule and an error
\* in the log, and the rules loaded are the ones the other files give: the
\* load of the files is the load of the readable ones among them.
C6_BadSourceIsSkippedWhole ==
    pc # "init" =>
        LET others == load_hz_range_config_from_files(SelectSeq(yaml_filepaths, Readable))
        IN  /\ exact_hz_configs = others.exact
            /\ regex_hz_configs = others.regex
            /\ \A i \in 1..Len(yaml_filepaths) :
                   ~Readable(yaml_filepaths[i])
                       => \E l \in SeqToSet(logged) : l.level = "error" /\ l.file = i

\* C6 happens: the first file is readable and gives rules of both kinds, the
\* second is not readable
C6_Witness ==
    /\ pc # "init"
    /\ yaml_filepaths[1].t = "doc"
    /\ ~Readable(yaml_filepaths[2])
    /\ exact_hz_configs # EmptyDict
    /\ regex_hz_configs # <<>>

\* C9: the exact map holds, for each exact name, the range of the last valid
\* entry of that name in the order of loading, and no name without a valid
\* entry; a later invalid entry of the name changes nothing.
C9_LastValidExactWins ==
    pc # "init" =>
        \A name \in {e.name : e \in SeqToSet(Declared)} \cup DOMAIN exact_hz_configs :
            LET valid == SelectSeq(Declared,
                                   LAMBDA d : d.name = name /\ ValidEntry(d) /\ ~IsPattern(d))
            IN  IF valid = <<>> THEN name \notin DOMAIN exact_hz_configs
                ELSE /\ name \in DOMAIN exact_hz_configs
                     /\ exact_hz_configs[name] = RangeOf(valid[Len(valid)])

\* ------------------------------------------------------ claims on the parser
\* C7: parse_ros_topic_statistics never fails: it returns for every text, and
\* a block that does not fit the shape is skipped.
C7_ParseNeverFails == pc # "crashed"

\* the positions of text where ansi_escape_pattern matches
EscapesOf(text) == {k \in 1..Len(text) : EscapeAt(text, k) > 0}

\* C8 as stated: for every record the stripped text holds no ESC-[ sequence
\* and stripping it again changes nothing.
C8_StripIsIdempotent ==
    pc # "init" =>
        /\ EscapesOf(cleaned_str) = {}
        /\ StripEscapes(cleaned_str) = cleaned_str

RECURSIVE IsSubsequence(_, _)
IsSubsequence(a, b) ==
    IF a = <<>> THEN TRUE
    ELSE IF Len(a) > Len(b) THEN FALSE
    ELSE IF Head(a) = Head(b) THEN IsSubsequence(Tail(a), Tail(b))
    ELSE IsSubsequence(a, Tail(b))

\* text without the occurrences of the sequence ESC [ 3 m, removed by hand
RECURSIVE WithoutCSI(_)
WithoutCSI(text) ==
    IF text = <<>> THEN text
    ELSE IF Len(text) >= Len(CSI) /\ SubSeq(text, 1, Len(CSI)) = CSI
    THEN WithoutCSI(SubSeq(text, Len(CSI) + 1, Len(text)))
    ELSE <<Head(text)>> \o WithoutCSI(Tail(text))

RECURSIVE Sum(_, _)
Sum(f, S) == IF S = {} THEN 0 ELSE LET x == CHOOSE x \in S : TRUE IN f[x] + Sum(f, S \ {x})

\* every ESC of text begins a whole control sequence
NoLooseEscape(text) == \A k \in 1..Len(text) : text[k] = ESC => EscapeAt(text, k) > 0

\* C8 as amended: the stripped text is the record with characters removed and
\* none altered; when every ESC of the record begins a whole control sequence,
\* exactly those sequences are removed, no ESC and so no sequence remains,
\* stripping again changes nothing, and when the sequences are all ESC [ 3 m
\* the statistics are those of the record with them removed by hand.
C8_StripRemovesWholeSequences ==
    pc # "init" =>
        /\ IsSubsequence(cleaned_str, msg_str)
        /\ NoLooseEscape(msg_str) =>
              /\ ESC \notin SeqToSet(cleaned_str)
              /\ Len(cleaned_str) =
                     Len(msg_str) - Sum([k \in 1..Len(msg_str) |-> EscapeAt(msg_str, k)],
                                        EscapesOf(msg_str))
              /\ StripEscapes(cleaned_str) = cleaned_str
        /\ (\A k \in 1..Len(msg_str) : msg_str[k] = ESC => HasPrefixAt(msg_str, k, CSI)) =>
              /\ cleaned_str = WithoutCSI(msg_str)
              /\ pc = "parsed" => parsed_topic_stats = FindBlocks(WithoutCSI(msg_str), 1).results

\* C8 happens: a block with a control sequence between its two lines is parsed
C8_Witness ==
    /\ pc = "parsed"
    /\ NoLooseEscape(msg_str)
    /\ HasPrefixAt(msg_str, 1, STAT \o NA \o CSI \o <<"\n">> \o CNT)
    /\ Len(parsed_topic_stats) = 1
    /\ parsed_topic_stats[1].topic = NA

====
